---- MODULE Spec2Model ----
(***************************************************************************)
(* Model of roblox/utilities/requests.py: the Requests dispatcher on top   *)
(* of a CleanAsyncClient session.  A call of Requests.request sends once,  *)
(* may capture the X-CSRF-Token response header into the session's default *)
(* headers, may resend once after a 403, and then either returns the       *)
(* response or raises an exception built from it.                          *)
(***************************************************************************)
EXTENDS Integers, Sequences, FiniteSets, TLC

(* ------------------------------ bounds --------------------------------- *)

\* number of distinct token values the server can issue
NumTokens == 2

\* number of caller slots (coroutines that may run Requests.request)
NumCalls == 2

\* number of explicit close() calls followed on one client
MaxCloses == 2

Calls == 1..NumCalls

\* the caller slots used by the sequential specification Spec
SeqCalls == {1}

TokenValues == {"token" \o ToString(i) : i \in 1..NumTokens}

Methods == {"GET", "POST", "post", "PUT", "PATCH", "DELETE", "HEAD"}

Urls == {"/v1/items"}

Statuses == {200, 400, 403, 500}

ContentTypes == {"", "text/html", "application/json",
                 "application/json; charset=utf-8"}

BodyTexts == {"", "<html>", "null", "0", "[]", "[1]", "{}",
              "{\"message\":\"x\"}",
              "{\"errors\":null}",
              "{\"errors\":[{\"code\":1,\"message\":\"x\"}]}"}

(* ------------------------- program constants --------------------------- *)

\* Requests.__init__: default of xcsrf_token_name
xcsrf_token_name == "X-CSRF-Token"

ContentTypeName == "Content-Type"

\* fault: "get" is listed among the token-handled methods
Fault_allowed_methods ==
    [m \in {"get", "post", "put", "patch", "delete"} |-> TRUE]

\* the module-level table of methods that take part in token handling
_xcsrf_allowed_methods ==
    [m \in {"post", "put", "patch", "delete"} |-> TRUE]

(* ------------------------------ str.lower ------------------------------ *)

UpperChars == "ABCDEFGHIJKLMNOPQRSTUVWXYZ"
LowerChars == "abcdefghijklmnopqrstuvwxyz"

LowerChar(ch) ==
    IF \E i \in 1..Len(UpperChars) : SubSeq(UpperChars, i, i) = ch
    THEN LET i == CHOOSE j \in 1..Len(UpperChars) : SubSeq(UpperChars, j, j) = ch
         IN  SubSeq(LowerChars, i, i)
    ELSE ch

RECURSIVE Lower(_)
Lower(s) ==
    IF Len(s) = 0 THEN ""
    ELSE LowerChar(SubSeq(s, 1, 1)) \o Lower(SubSeq(s, 2, Len(s)))

\* str.startswith
StartsWith(s, prefix) ==
    /\ Len(s) >= Len(prefix)
    /\ SubSeq(s, 1, Len(prefix)) = prefix

\* dict.get(key) on a mapping; Absent stands for Python's None
Absent == [type |-> "null"]

(* ------------------------------ JSON values ---------------------------- *)

JNull == Absent
JBool(b) == [type |-> "bool", bool |-> b]
JNum(n) == [type |-> "number", num |-> n]
JStr(s) == [type |-> "string", str |-> s]
JArr(items) == [type |-> "array", items |-> items]
JObj(members) == [type |-> "object", members |-> members]

EmptyMembers == [k \in {} |-> JNull]

ErrorEntry == JObj([k \in {"code", "message"} |->
                      IF k = "code" THEN JNum(1) ELSE JStr("x")])

\* Response.json(): the parsed value, or a JSONDecodeError
JsonLoads(text) ==
    CASE text = "null"  -> [ok |-> TRUE, value |-> JNull]
      [] text = "0"     -> [ok |-> TRUE, value |-> JNum(0)]
      [] text = "[]"    -> [ok |-> TRUE, value |-> JArr(<<>>)]
      [] text = "[1]"   -> [ok |-> TRUE, value |-> JArr(<<JNum(1)>>)]
      [] text = "{}"    -> [ok |-> TRUE, value |-> JObj(EmptyMembers)]
      [] text = "{\"message\":\"x\"}" ->
             [ok |-> TRUE, value |-> JObj([k \in {"message"} |-> JStr("x")])]
      [] text = "{\"errors\":null}" ->
             [ok |-> TRUE, value |-> JObj([k \in {"errors"} |-> JNull])]
      [] text = "{\"errors\":[{\"code\":1,\"message\":\"x\"}]}" ->
             [ok |-> TRUE,
              value |-> JObj([k \in {"errors"} |-> JArr(<<ErrorEntry>>)])]
      [] OTHER -> [ok |-> FALSE, value |-> JNull]

\* Python truth value of a parsed JSON value
Truthy(v) ==
    CASE v.type = "null"   -> FALSE
      [] v.type = "bool"   -> v.bool
      [] v.type = "number" -> v.num # 0
      [] v.type = "string" -> Len(v.str) > 0
      [] v.type = "array"  -> Len(v.items) > 0
      [] v.type = "object" -> DOMAIN v.members # {}

(* ------------------------------ responses ------------------------------ *)

NoHeader == "<no header>"

\* the headers of a response: the token header and Content-Type, each optional
MkHeaders(token, ctype) ==
    [k \in (IF token = NoHeader THEN {} ELSE {xcsrf_token_name})
           \cup (IF ctype = NoHeader THEN {} ELSE {ContentTypeName})
        |-> IF k = xcsrf_token_name THEN token ELSE ctype]

ResponseHeaders ==
    {MkHeaders(t, ct) : t \in TokenValues \cup {NoHeader},
                        ct \in ContentTypes \cup {NoHeader}}

\* what the server may answer to one send
ServerResponses ==
    [status_code : Statuses, headers : ResponseHeaders, text : BodyTexts]

\* the Response object handed back by the send number `attempt` of a call
MkResponse(attempt, r) ==
    [attempt |-> attempt, status_code |-> r.status_code,
     headers |-> r.headers, text |-> r.text]

NoResponse == [attempt |-> 0]
NoException == [type |-> "none"]

\* Mapping.get(key): the value, or None
HeaderGet(h, key) ==
    IF key \in DOMAIN h THEN JStr(h[key]) ELSE Absent

(* ------------------------------ state ---------------------------------- *)

VARIABLES
    headers,   \* CleanAsyncClient.headers: the session's default headers
    call,      \* per caller slot: the frame of its Requests.request call
    client     \* the CleanAsyncClient: its disposal so far

vars == <<headers, call, client>>

\* a CleanAsyncClient right after __init__: close never called, the
\* connections of its requests.Session not released, no exception has left
\* close, the object not collected
NewClient == [closes |-> 0, released |-> FALSE, raised |-> FALSE,
              deleted |-> FALSE]

IdleCall ==
    [pc |-> "idle", method |-> "", url |-> "", kwargs |-> [stream |-> FALSE],
     handle_xcsrf_token |-> TRUE, skip_roblox |-> FALSE, stream |-> FALSE,
     response |-> NoResponse, sent |-> <<>>, presented |-> <<>>,
     captured |-> NoHeader, result |-> NoResponse, exception |-> NoException]

\* Requests.__init__ on a fresh CleanAsyncClient
Init ==
    /\ headers = [k \in {"User-Agent", "Referer"} |->
                    IF k = "User-Agent" THEN "Roblox/WinInet" ELSE "www.roblox.com"]
    /\ call = [c \in Calls |-> IdleCall]
    /\ client = NewClient

\* the token the session would put on a request prepared now
SessionToken == IF xcsrf_token_name \in DOMAIN headers
                THEN headers[xcsrf_token_name] ELSE NoHeader

\* fault: the header is set only when the session does not hold it yet
Fault_SetHeaderIfAbsent(h, name, value) ==
    IF name \in DOMAIN h THEN h
    ELSE [k \in DOMAIN h \cup {name} |-> IF k = name THEN value ELSE h[k]]

\* headers[name] = value on the session's header mapping
SetHeader(h, name, value) ==
    [k \in DOMAIN h \cup {name} |-> IF k = name THEN value ELSE h[k]]

(* --------------------------- error translation ------------------------- *)

AttributeError == [type |-> "AttributeError"]
JSONDecodeError == [type |-> "JSONDecodeError"]
TransportError == [type |-> "TransportError"]

\* data and data.get("errors"), for the parsed body `data` (None when the
\* parse failed): a falsy data is the value of the expression itself, a dict
\* gives its "errors" member or None, any other value has no attribute get
DataAndGetErrors(data) ==
    IF ~Truthy(data) THEN [exc |-> NoException, errors |-> data]
    ELSE IF data.type = "object"
         THEN [exc |-> NoException,
               errors |-> IF "errors" \in DOMAIN data.members
                          THEN data.members["errors"] ELSE Absent]
         ELSE [exc |-> AttributeError, errors |-> Absent]

\* fault: the except clause does not catch the parse failure
Fault_TryJson(response) ==
    LET parsed == JsonLoads(response.text)
    IN  IF parsed.ok THEN [exc |-> NoException, data |-> parsed.value]
        ELSE [exc |-> JSONDecodeError, data |-> Absent]

\* data = None; try: data = response.json(); except JSONDecodeError: pass
TryJson(response) ==
    LET parsed == JsonLoads(response.text)
    IN  IF parsed.ok THEN [exc |-> NoException, data |-> parsed.value]
        ELSE [exc |-> NoException, data |-> Absent]

\* the error-body extraction of request: the errors to put in the exception,
\* or the exception that escapes from the extraction
ExtractErrors(response) ==
    LET content_type == HeaderGet(response.headers, ContentTypeName)
    IN  IF Truthy(content_type) /\ StartsWith(content_type.str, "application/json")
        THEN LET j == TryJson(response)
             IN  IF j.exc # NoException THEN [exc |-> j.exc, errors |-> Absent]
                 ELSE DataAndGetErrors(j.data)
        ELSE [exc |-> NoException, errors |-> Absent]

\* get_exception_from_status_code(status)(response=..., errors=...)
DomainError(response, errors) ==
    [type |-> "DomainError", status |-> response.status_code,
     errors |-> errors, response |-> response]

\* fault: the comparison with 400 is turned around
Fault_IsError(response) == response.status_code <= 400

\* response.status_code >= 400
IsError(response) == response.status_code >= 400

\* fault: the stream flag is not looked at before the status code
Fault_Streamed(frame) == FALSE

\* if stream: return response
Streamed(frame) == frame.stream

\* the tail of request once the effective response is known: the frame of
\* the call after it returned `response` or raised
Translate(frame, response) ==
    IF Streamed(frame)
    THEN [frame EXCEPT !.pc = "returned", !.response = response,
                       !.result = response]
    ELSE IF IsError(response)
    THEN LET x == ExtractErrors(response)
         IN  [frame EXCEPT !.pc = "raised", !.response = response,
                           !.exception = IF x.exc # NoException THEN x.exc
                                         ELSE DomainError(response, x.errors)]
    ELSE [frame EXCEPT !.pc = "returned", !.response = response,
                       !.result = response]

(* ------------------------------ actions -------------------------------- *)

\* the send handed to asyncio.to_thread: the arguments are bound now, the
\* worker thread prepares and transmits the request later
IssueSend(frame) ==
    [frame EXCEPT !.sent = Append(@, [method |-> frame.method,
                                      url |-> frame.url,
                                      kwargs |-> frame.kwargs])]

\* fault: the token is captured only from a 403 response
Fault_TokenHandled(frame, response) ==
    /\ frame.handle_xcsrf_token
    /\ xcsrf_token_name \in DOMAIN response.headers
    /\ frame.method \in DOMAIN _xcsrf_allowed_methods
    /\ _xcsrf_allowed_methods[frame.method]
    /\ response.status_code = 403

\* fault: the method is not looked at
Fault_TokenHandledAnyMethod(frame, response) ==
    /\ frame.handle_xcsrf_token
    /\ xcsrf_token_name \in DOMAIN response.headers

\* fault: the handle_xcsrf_token option is not looked at
Fault_TokenHandledAlways(frame, response) ==
    /\ xcsrf_token_name \in DOMAIN response.headers
    /\ frame.method \in DOMAIN _xcsrf_allowed_methods
    /\ _xcsrf_allowed_methods[frame.method]

\* handle_xcsrf_token and self.xcsrf_token_name in response.headers
\*   and _xcsrf_allowed_methods.get(method)
TokenHandled(frame, response) ==
    /\ frame.handle_xcsrf_token
    /\ xcsrf_token_name \in DOMAIN response.headers
    /\ frame.method \in DOMAIN _xcsrf_allowed_methods
    /\ _xcsrf_allowed_methods[frame.method]

\* fault: every error status triggers the resend
Fault_ShouldResendAnyError(response) == response.status_code >= 400

\* fault: the resend is triggered by 401 instead of 403
Fault_ShouldResend(response) == response.status_code = 401

\* response.status_code == 403: the request is sent again
ShouldResend(response) == response.status_code = 403

\* a caller starts request(method, url, **kwargs) on a client that still
\* exists: the options are popped, the method is lowercased and the first
\* send is issued
Request(c, method, url, handle, skip, stream) ==
    /\ ~client.deleted
    /\ call[c].pc = "idle"
    /\ call' = [call EXCEPT ![c] =
                  IssueSend([IdleCall EXCEPT
                               !.pc = "send1",
                               !.method = Lower(method),
                               !.url = url,
                               !.kwargs = [stream |-> stream],
                               !.handle_xcsrf_token = handle,
                               !.skip_roblox = skip,
                               !.stream = stream])]
    /\ UNCHANGED <<headers, client>>

\* the worker thread runs session.request: the session's default headers in
\* force now are merged into the request that goes on the wire
Transmit(c) ==
    /\ call[c].pc \in {"send1", "send2"}
    /\ call' = [call EXCEPT ![c].pc = IF @ = "send1" THEN "wait1" ELSE "wait2",
                            ![c].presented = Append(@, SessionToken)]
    /\ UNCHANGED <<headers, client>>

\* fault: skip_roblox is not looked at
Fault_SkipRoblox(frame) == FALSE

\* if skip_roblox: return response
SkipRoblox(frame) == frame.skip_roblox

\* fault: skip_roblox is looked at only after the token handling
Fault_FirstResponseSkipLate(c, r) ==
    LET frame == call[c]
        response == MkResponse(1, r)
        seen == [frame EXCEPT !.response = response]
        kept == IF TokenHandled(frame, response)
                THEN [seen EXCEPT !.captured =
                        response.headers[xcsrf_token_name]]
                ELSE seen
    IN  /\ frame.pc = "wait1"
        /\ headers' = IF TokenHandled(frame, response)
                      THEN SetHeader(headers, xcsrf_token_name,
                                     response.headers[xcsrf_token_name])
                      ELSE headers
        /\ call' = [call EXCEPT ![c] =
                      IF TokenHandled(frame, response) /\ ShouldResend(response)
                      THEN IssueSend([kept EXCEPT !.pc = "send2"])
                      ELSE IF SkipRoblox(frame)
                      THEN [kept EXCEPT !.pc = "returned", !.result = response]
                      ELSE Translate(kept, response)]
        /\ UNCHANGED client

\* fault: a streamed response is returned before the token handling
Fault_FirstResponseStreamFirst(c, r) ==
    LET frame == call[c]
        response == MkResponse(1, r)
        seen == [frame EXCEPT !.response = response]
        handled == ~SkipRoblox(frame) /\ ~Streamed(frame)
                      /\ TokenHandled(frame, response)
        kept == IF handled
                THEN [seen EXCEPT !.captured =
                        response.headers[xcsrf_token_name]]
                ELSE seen
    IN  /\ frame.pc = "wait1"
        /\ headers' = IF handled
                      THEN SetHeader(headers, xcsrf_token_name,
                                     response.headers[xcsrf_token_name])
                      ELSE headers
        /\ call' = [call EXCEPT ![c] =
                      IF SkipRoblox(frame)
                      THEN [seen EXCEPT !.pc = "returned", !.result = response]
                      ELSE IF handled /\ ShouldResend(response)
                      THEN IssueSend([kept EXCEPT !.pc = "send2"])
                      ELSE Translate(kept, response)]
        /\ UNCHANGED client

\* fault: on a 403 the request is sent again before the token is stored
Fault_FirstResponseCaptureLate(c, r) ==
    LET frame == call[c]
        response == MkResponse(1, r)
        seen == [frame EXCEPT !.response = response]
        handled == ~SkipRoblox(frame) /\ TokenHandled(frame, response)
        kept == IF handled
                THEN [seen EXCEPT !.captured =
                        response.headers[xcsrf_token_name]]
                ELSE seen
    IN  /\ frame.pc = "wait1"
        /\ headers' = IF handled /\ ~ShouldResend(response)
                      THEN SetHeader(headers, xcsrf_token_name,
                                     response.headers[xcsrf_token_name])
                      ELSE headers
        /\ call' = [call EXCEPT ![c] =
                      IF SkipRoblox(frame)
                      THEN [seen EXCEPT !.pc = "returned", !.result = response]
                      ELSE IF handled /\ ShouldResend(response)
                      THEN IssueSend([kept EXCEPT !.pc = "send2"])
                      ELSE Translate(kept, response)]
        /\ UNCHANGED client

\* the first send returns r: request runs from the first await up to the
\* second await, a return or a raise
FirstResponse(c, r) ==
    LET frame == call[c]
        response == MkResponse(1, r)
        seen == [frame EXCEPT !.response = response]
    IN  /\ frame.pc = "wait1"
        /\ IF SkipRoblox(frame)
           THEN /\ call' = [call EXCEPT ![c] =
                              [seen EXCEPT !.pc = "returned", !.result = response]]
                /\ UNCHANGED <<headers, client>>
           ELSE IF TokenHandled(frame, response)
           THEN /\ headers' = SetHeader(headers, xcsrf_token_name,
                                        response.headers[xcsrf_token_name])
                /\ UNCHANGED client
                /\ call' = [call EXCEPT ![c] =
                              LET kept == [seen EXCEPT !.captured =
                                             response.headers[xcsrf_token_name]]
                              IN  IF ShouldResend(response)
                                  THEN IssueSend([kept EXCEPT !.pc = "send2"])
                                  ELSE Translate(kept, response)]
           ELSE /\ call' = [call EXCEPT ![c] = Translate(seen, response)]
                /\ UNCHANGED <<headers, client>>

\* fault: the token of the resend's response is stored as well
Fault_ResendResponseCaptures(c, r) ==
    LET response == MkResponse(2, r)
    IN  /\ call[c].pc = "wait2"
        /\ call' = [call EXCEPT ![c] = Translate(call[c], response)]
        /\ headers' = IF TokenHandled(call[c], response)
                      THEN SetHeader(headers, xcsrf_token_name,
                                     response.headers[xcsrf_token_name])
                      ELSE headers
        /\ UNCHANGED client

\* fault: the resend's response is not assigned to `response`
Fault_ResendResponse(c, r) ==
    /\ call[c].pc = "wait2"
    /\ call' = [call EXCEPT ![c] = Translate(call[c], call[c].response)]
    /\ UNCHANGED <<headers, client>>

\* the resend returns r: it is the effective response of the call
ResendResponse(c, r) ==
    /\ call[c].pc = "wait2"
    /\ call' = [call EXCEPT ![c] = Translate(call[c], MkResponse(2, r))]
    /\ UNCHANGED <<headers, client>>

\* fault: a failed send is issued again
Fault_TransportFailure(c) ==
    /\ call[c].pc \in {"wait1", "wait2"}
    /\ call' = [call EXCEPT ![c] =
                  IssueSend([call[c] EXCEPT
                               !.pc = IF @ = "wait1" THEN "send1" ELSE "send2"])]
    /\ UNCHANGED <<headers, client>>

\* session.request raises (connection, DNS, timeout): the exception leaves
\* the await and request
TransportFailure(c) ==
    /\ call[c].pc \in {"wait1", "wait2"}
    /\ call' = [call EXCEPT ![c].pc = "raised", ![c].exception = TransportError]
    /\ UNCHANGED <<headers, client>>

\* the caller has taken the result of the finished call; the slot is free
Finish(c) ==
    /\ call[c].pc \in {"returned", "raised"}
    /\ call' = [call EXCEPT ![c] = IdleCall]
    /\ UNCHANGED <<headers, client>>

Next ==
    \/ \E c \in SeqCalls, m \in Methods, u \in Urls, h, k, s \in BOOLEAN :
          Request(c, m, u, h, k, s)
    \/ \E c \in SeqCalls : Transmit(c)
    \/ \E c \in SeqCalls, r \in ServerResponses : FirstResponse(c, r)
    \/ \E c \in SeqCalls, r \in ServerResponses : ResendResponse(c, r)
    \/ \E c \in SeqCalls : TransportFailure(c)
    \/ \E c \in SeqCalls : Finish(c)

Spec == Init /\ [][Next]_vars

(* --------------------------- concurrent callers ------------------------ *)

\* the inputs of the concurrent specification: calls with the default
\* options, answered with or without a token and with or without a 403
ConcMethods == {"GET", "POST"}

\* the tokens the server issues in the concurrent specification
ConcTokens == {"token1", "token2"}

ConcResponses ==
    [status_code : {200, 403},
     headers : {MkHeaders(t, NoHeader) : t \in ConcTokens \cup {NoHeader}},
     text : {""}]

\* the answers to a resend: a success, without a token or with a new one
ConcResendResponses ==
    {r \in ConcResponses :
        /\ r.status_code = 200
        /\ r.headers \in {MkHeaders(NoHeader, NoHeader),
                          MkHeaders("token2", NoHeader)}}

\* every caller slot runs request; the coroutines interleave at their awaits
NextConc ==
    \/ \E c \in Calls, m \in ConcMethods, u \in Urls :
          Request(c, m, u, TRUE, FALSE, FALSE)
    \/ \E c \in Calls : Transmit(c)
    \/ \E c \in Calls, r \in ConcResponses : FirstResponse(c, r)
    \/ \E c \in Calls, r \in ConcResendResponses : ResendResponse(c, r)
    \/ \E c \in Calls : TransportFailure(c)
    \/ \E c \in Calls : Finish(c)

SpecConc == Init /\ [][NextConc]_vars

(* ------------------------------- disposal ------------------------------ *)

\* CleanAsyncClient.close(): self.session.close() is called bare, so when
\* releasing the connections raises (fails) the exception leaves close
Close(fails) ==
    /\ ~client.deleted
    /\ client.closes < MaxCloses
    /\ client' = [client EXCEPT !.closes = @ + 1,
                                !.released = @ \/ ~fails,
                                !.raised = @ \/ fails]
    /\ UNCHANGED <<headers, call>>

\* CleanAsyncClient.__del__(): the client is collected once nothing runs on
\* it; session.close() is called inside try/except Exception: pass
Del(fails) ==
    /\ ~client.deleted
    /\ \A c \in Calls : call[c].pc = "idle"
    /\ client' = [client EXCEPT !.released = @ \/ ~fails,
                                !.deleted = TRUE]
    /\ UNCHANGED <<headers, call>>

\* one caller using the client, with close() and collection in between
NextClose ==
    \/ \E c \in SeqCalls, m \in ConcMethods, u \in Urls :
          Request(c, m, u, TRUE, FALSE, FALSE)
    \/ \E c \in SeqCalls : Transmit(c)
    \/ \E c \in SeqCalls, r \in ConcResponses : FirstResponse(c, r)
    \/ \E c \in SeqCalls, r \in ConcResendResponses : ResendResponse(c, r)
    \/ \E c \in SeqCalls : TransportFailure(c)
    \/ \E c \in SeqCalls : Finish(c)
    \/ \E fails \in BOOLEAN : Close(fails)
    \/ \E fails \in BOOLEAN : Del(fails)

SpecClose == Init /\ [][NextClose]_vars

(* ------------------------------ properties ----------------------------- *)

UnsafeMethods == {"post", "put", "patch", "delete"}

Done(c) == call[c].pc \in {"returned", "raised"}

\* the call c has an effective response: no send of it failed in transport
HasEffective(c) == Done(c) /\ call[c].exception # TransportError

CarriesToken(response) == xcsrf_token_name \in DOMAIN response.headers

\* this step hands the response of the first send to the call c
FirstResponseStep(c) ==
    /\ call[c].pc = "wait1"
    /\ call'[c].response.attempt = 1

\* this step hands the response of the resend to the call c
ResendResponseStep(c) ==
    /\ call[c].pc = "wait2"
    /\ call'[c].response.attempt = 2

\* C1 as stated: an unsafe-method call with token handling enabled and
\* skip_roblox unset whose first response is a 403 resends once, with the
\* same method, URL and options.
C1_Original ==
    [][\A c \in Calls :
         (/\ FirstResponseStep(c)
          /\ call[c].method \in UnsafeMethods
          /\ call[c].handle_xcsrf_token
          /\ ~call[c].skip_roblox
          /\ call'[c].response.status_code = 403)
         => (/\ call'[c].pc = "send2"
             /\ Len(call'[c].sent) = 2
             /\ call'[c].sent[2] = call'[c].sent[1])]_vars

\* C1 amended: an unsafe-method call with token handling enabled and
\* skip_roblox unset whose first response is a 403 that carries the token
\* header resends exactly once, with the same method, URL and options; the
\* response of the resend ends the call, whatever its status, and no call
\* ever sends a third time.
C1_ResendOnce ==
    [][\A c \in Calls :
         /\ (/\ FirstResponseStep(c)
             /\ call[c].method \in UnsafeMethods
             /\ call[c].handle_xcsrf_token
             /\ ~call[c].skip_roblox
             /\ call'[c].response.status_code = 403
             /\ CarriesToken(call'[c].response))
            => (/\ call'[c].pc = "send2"
                /\ Len(call'[c].sent) = 2
                /\ call'[c].sent[2] = call'[c].sent[1])
         /\ ResendResponseStep(c)
            => (/\ call'[c].pc \in {"returned", "raised"}
                /\ call'[c].sent = call[c].sent)
         /\ Len(call'[c].sent) <= 2]_vars

\* a call that resent, got a second 403 and ended after two sends
C1_Witness ==
    \E c \in Calls :
        /\ Done(c)
        /\ Len(call[c].sent) = 2
        /\ call[c].sent[2] = call[c].sent[1]
        /\ call[c].response.attempt = 2
        /\ call[c].response.status_code = 403

\* C2 as stated: when an unsafe-method call has ended, the session's token
\* header equals the token of the last response it received, if that
\* response carries the token header.
C2_Original ==
    \A c \in Calls :
        (/\ Done(c)
         /\ call[c].method \in UnsafeMethods
         /\ call[c].response.attempt >= 1
         /\ CarriesToken(call[c].response))
        => SessionToken = call[c].response.headers[xcsrf_token_name]

\* C2 amended: for an unsafe-method call with token handling enabled and
\* skip_roblox unset, the first response, when it carries the token header,
\* sets the session's token header to its token value in the very step that
\* receives it (so before the call returns or raises), whatever its status
\* code; the response of a resend never changes the session's headers.
C2_CaptureFirst ==
    [][\A c \in Calls :
         /\ (/\ FirstResponseStep(c)
             /\ call[c].method \in UnsafeMethods
             /\ call[c].handle_xcsrf_token
             /\ ~call[c].skip_roblox
             /\ CarriesToken(call'[c].response))
            => (/\ xcsrf_token_name \in DOMAIN headers'
                /\ headers'[xcsrf_token_name] =
                       call'[c].response.headers[xcsrf_token_name])
         /\ ResendResponseStep(c) => headers' = headers]_vars

\* an unsafe-method call that raised for a 500 carrying a token, with that
\* token now in the session's headers
C2_Witness ==
    \E c \in Calls :
        /\ call[c].pc = "raised"
        /\ call[c].method \in UnsafeMethods
        /\ call[c].response.attempt = 1
        /\ call[c].response.status_code = 500
        /\ CarriesToken(call[c].response)
        /\ SessionToken = call[c].response.headers[xcsrf_token_name]
        /\ Len(call[c].presented) = 1
        /\ call[c].presented[1] # SessionToken

\* C3: no step of a GET call changes the session's headers, whatever the
\* options and the response, and a GET call that has ended sent exactly once.
C3_GetExempt ==
    [][\A c \in Calls :
         (/\ call'[c] # call[c]
          /\ (call[c].method = "get" \/ call'[c].method = "get"))
         => (/\ headers' = headers
             /\ Len(call'[c].sent) <= 1
             /\ (call'[c].pc \in {"returned", "raised"}
                    => Len(call'[c].sent) = 1))]_vars

\* a GET call with token handling enabled that ended on a 403 carrying a
\* token the session does not hold
C3_Witness ==
    \E c \in Calls :
        /\ Done(c)
        /\ call[c].method = "get"
        /\ call[c].handle_xcsrf_token
        /\ ~call[c].skip_roblox
        /\ call[c].response.attempt = 1
        /\ call[c].response.status_code = 403
        /\ CarriesToken(call[c].response)
        /\ SessionToken # call[c].response.headers[xcsrf_token_name]

\* C4: a call with skip_roblox set never raises a Domain Error (nor any
\* exception out of the error translation), and what it returns is the
\* response of its only send.
C4_SkipReturnsRaw ==
    \A c \in Calls :
        (Done(c) /\ call[c].skip_roblox)
        => (/\ call[c].exception \in {NoException, TransportError}
            /\ call[c].pc = "returned"
                  => (/\ call[c].result = call[c].response
                      /\ call[c].result.attempt = 1
                      /\ Len(call[c].sent) = 1)
            /\ call[c].exception = NoException => call[c].pc = "returned")

\* a skip_roblox call that returned a 500 response
C4_Witness ==
    \E c \in Calls :
        /\ call[c].pc = "returned"
        /\ call[c].skip_roblox
        /\ ~call[c].stream
        /\ call[c].result.status_code = 500

\* C5: a call with stream set and skip_roblox unset returns its effective
\* response (that of the resend when it resent) without raising out of the
\* error translation, for every status code.
C5_StreamReturns ==
    \A c \in Calls :
        (HasEffective(c) /\ call[c].stream /\ ~call[c].skip_roblox)
        => (/\ call[c].pc = "returned"
            /\ call[c].exception = NoException
            /\ call[c].result = call[c].response
            /\ call[c].result.attempt = Len(call[c].sent))

\* a streamed call that returned a response with status >= 400
C5_Witness ==
    \E c \in Calls :
        /\ call[c].pc = "returned"
        /\ call[c].stream
        /\ ~call[c].skip_roblox
        /\ call[c].result.status_code >= 400

\* the Content-Type values of the model that name a JSON media type
JsonContentTypes == {"application/json", "application/json; charset=utf-8"}

\* the response says its body is JSON
SaysJson(response) ==
    /\ ContentTypeName \in DOMAIN response.headers
    /\ response.headers[ContentTypeName] \in JsonContentTypes

\* the call c ended on an error response that is neither suppressed nor
\* streamed
ErrorCase(c) ==
    /\ HasEffective(c)
    /\ ~call[c].skip_roblox
    /\ ~call[c].stream
    /\ call[c].response.status_code >= 400

\* C6 as stated: a call that is neither suppressed nor streamed and whose
\* effective response has status >= 400 ends by raising a Domain Error built
\* from that response, for every Content-Type and every body.
C6_Original ==
    \A c \in Calls :
        ErrorCase(c)
        => (/\ call[c].pc = "raised"
            /\ call[c].exception.type = "DomainError"
            /\ call[c].exception.response = call[c].response)

\* C7: a Domain Error is built only from a response with status >= 400 and
\* only in a call without skip_roblox; a call whose effective response has a
\* status below 400 returns that response.
C7_NoErrorOnSuccess ==
    \A c \in Calls :
        /\ (Done(c) /\ call[c].exception.type = "DomainError")
           => (/\ call[c].exception.response.status_code >= 400
               /\ call[c].exception.status >= 400
               /\ ~call[c].skip_roblox)
        /\ (HasEffective(c) /\ call[c].response.status_code < 400)
           => (/\ call[c].pc = "returned"
               /\ call[c].exception = NoException
               /\ call[c].result = call[c].response
               /\ call[c].result.attempt = Len(call[c].sent))

\* a call without skip_roblox and stream that returned a 200 response
C7_Witness ==
    \E c \in Calls :
        /\ call[c].pc = "returned"
        /\ ~call[c].skip_roblox
        /\ ~call[c].stream
        /\ call[c].result.status_code = 200

\* C8: after a resend the response of the resend alone decides the outcome:
\* with a status below 400 the call returns the resend's response, with a
\* status >= 400 and no streaming it raises, and a Domain Error it raises
\* carries the resend's response and status.
C8_ResendDecides ==
    \A c \in Calls :
        (HasEffective(c) /\ Len(call[c].sent) = 2)
        => (/\ call[c].response.attempt = 2
            /\ call[c].response.status_code < 400
                  => (/\ call[c].pc = "returned"
                      /\ call[c].result = call[c].response)
            /\ (call[c].response.status_code >= 400 /\ ~call[c].stream)
                  => call[c].pc = "raised"
            /\ call[c].pc = "returned" => call[c].result.attempt = 2
            /\ call[c].exception.type = "DomainError"
                  => (/\ call[c].exception.response = call[c].response
                      /\ call[c].exception.response.attempt = 2
                      /\ call[c].exception.status = call[c].response.status_code))

\* a call that resent after a 403 and returned the resend's 200 response
C8_Witness ==
    \E c \in Calls :
        /\ call[c].pc = "returned"
        /\ Len(call[c].sent) = 2
        /\ ~call[c].stream
        /\ call[c].result.attempt = 2
        /\ call[c].result.status_code = 200

\* a call that resent and raised a Domain Error for the resend's 500
C8_WitnessError ==
    \E c \in Calls :
        /\ call[c].pc = "raised"
        /\ Len(call[c].sent) = 2
        /\ call[c].exception.type = "DomainError"
        /\ call[c].exception.status = 500

\* the errors member of a body that is a JSON object with such a member
BodyHasErrors(text) ==
    LET parsed == JsonLoads(text)
    IN  /\ parsed.ok
        /\ parsed.value.type = "object"
        /\ "errors" \in DOMAIN parsed.value.members

BodyErrors(text) == JsonLoads(text).value.members["errors"]

\* C9 as stated: the Domain Error raised for an error response has the
\* response's status, and its errors are the errors member of the body when
\* the Content-Type names JSON and the body is a JSON object with such a
\* member, and are absent otherwise.
C9_Original ==
    \A c \in Calls :
        (ErrorCase(c) /\ call[c].exception.type = "DomainError")
        => (/\ call[c].exception.status = call[c].response.status_code
            /\ call[c].exception.errors =
                  IF SaysJson(call[c].response)
                     /\ BodyHasErrors(call[c].response.text)
                  THEN BodyErrors(call[c].response.text)
                  ELSE Absent)

\* C10: an error response whose Content-Type names JSON and whose body does
\* not parse as JSON raises a Domain Error with the response's status and
\* without errors; the parse failure does not leave the call.
C10_ParseFailureSwallowed ==
    \A c \in Calls :
        (/\ ErrorCase(c)
         /\ SaysJson(call[c].response)
         /\ ~JsonLoads(call[c].response.text).ok)
        => (/\ call[c].pc = "raised"
            /\ call[c].exception.type = "DomainError"
            /\ call[c].exception.status = call[c].response.status_code
            /\ call[c].exception.errors = Absent
            /\ call[c].exception.response = call[c].response)

\* a call that raised a Domain Error for a 500 whose JSON body is malformed
C10_Witness ==
    \E c \in Calls :
        /\ call[c].pc = "raised"
        /\ call[c].exception.type = "DomainError"
        /\ call[c].exception.status = 500
        /\ SaysJson(call[c].response)
        /\ call[c].response.text = "<html>"

\* C11: no step of a call with handle_xcsrf_token false changes the
\* session's headers, whatever the method and the response, and such a call
\* sends exactly once.
C11_NoHandleNoToken ==
    [][\A c \in Calls :
         (/\ call'[c] # call[c]
          /\ \/ call[c].pc # "idle" /\ ~call[c].handle_xcsrf_token
             \/ call'[c].pc # "idle" /\ ~call'[c].handle_xcsrf_token)
         => (/\ headers' = headers
             /\ Len(call'[c].sent) <= 1
             /\ (call'[c].pc \in {"returned", "raised"}
                    => Len(call'[c].sent) = 1))]_vars

\* an unsafe-method call with handle_xcsrf_token false that ended on a 403
\* carrying a token the session does not hold
C11_Witness ==
    \E c \in Calls :
        /\ Done(c)
        /\ call[c].method \in UnsafeMethods
        /\ ~call[c].handle_xcsrf_token
        /\ ~call[c].skip_roblox
        /\ call[c].response.attempt = 1
        /\ call[c].response.status_code = 403
        /\ CarriesToken(call[c].response)
        /\ SessionToken # call[c].response.headers[xcsrf_token_name]
        /\ Len(call[c].sent) = 1

\* this step hands to the call c a first response from which the call has
\* to capture the token: unsafe method, token handling on, no skip_roblox,
\* token header in the response
CaptureStep(c) ==
    /\ FirstResponseStep(c)
    /\ call[c].method \in UnsafeMethods
    /\ call[c].handle_xcsrf_token
    /\ ~call[c].skip_roblox
    /\ CarriesToken(call'[c].response)

\* C12: with calls in flight concurrently, the session's headers change only
\* in a step that receives the first response of a token-handled
\* unsafe-method call, and then only the token header changes; every such
\* step leaves in the token header the token of the response just received,
\* whatever was there (last write wins); the token header, once present, is
\* never removed.
C12_LastWriteWins ==
    [][/\ headers' # headers
          => \E c \in Calls :
                /\ CaptureStep(c)
                /\ DOMAIN headers' = DOMAIN headers \cup {xcsrf_token_name}
                /\ \A k \in DOMAIN headers \ {xcsrf_token_name} :
                       headers'[k] = headers[k]
       /\ \A c \in Calls :
             CaptureStep(c)
             => (/\ xcsrf_token_name \in DOMAIN headers'
                 /\ headers'[xcsrf_token_name] =
                        call'[c].response.headers[xcsrf_token_name])
       /\ xcsrf_token_name \in DOMAIN headers
          => xcsrf_token_name \in DOMAIN headers']_vars

\* two calls in flight together captured different tokens; the later
\* capture is the one the session holds
C12_Witness ==
    \E c, d \in Calls :
        /\ c # d
        /\ call[c].pc = "wait2"
        /\ call[d].pc = "send2"
        /\ call[c].captured \in TokenValues
        /\ call[d].captured \in TokenValues
        /\ call[c].captured # call[d].captured
        /\ SessionToken = call[d].captured

\* this step ends a send of the call c without a response
FailureStep(c) ==
    /\ call[c].pc \in {"wait1", "wait2"}
    /\ call'[c] # call[c]
    /\ call'[c].response = call[c].response

\* C13: a send that fails in transport ends the call with the transport's
\* exception: nothing is sent again, no Domain Error is built, the session's
\* headers are as they were (after a failed first send the token header is
\* the one the call started with), and a call that has raised does nothing
\* more.
C13_TransportFailurePropagates ==
    [][\A c \in Calls :
         /\ FailureStep(c)
            => (/\ call'[c].pc = "raised"
                /\ call'[c].exception = TransportError
                /\ call'[c].result = NoResponse
                /\ call'[c].sent = call[c].sent
                /\ headers' = headers
                /\ call[c].pc = "wait1"
                      => (/\ Len(call'[c].sent) = 1
                          /\ SessionToken' = call[c].presented[1]))
         /\ (call[c].pc = "raised" /\ call'[c] # call[c])
            => call'[c] = IdleCall]_vars

\* a call whose resend failed in transport: two sends, transport exception
C13_Witness ==
    \E c \in Calls :
        /\ call[c].pc = "raised"
        /\ call[c].exception = TransportError
        /\ Len(call[c].sent) = 2
        /\ call[c].response.attempt = 1

\* C14 as stated: disposing the client, any number of times and in any
\* order with the calls, never raises, also when releasing the connections
\* fails.
C14_Original == ~client.raised

\* the token the server made the call c take: the token of its first
\* response when the call is a token-handled unsafe-method call and that
\* response carries one, none otherwise
ServerToken(c) ==
    IF Len(call[c].sent) = 2 THEN call[c].captured
    ELSE IF /\ call[c].method \in UnsafeMethods
            /\ call[c].handle_xcsrf_token
            /\ ~call[c].skip_roblox
            /\ CarriesToken(call[c].response)
         THEN call[c].response.headers[xcsrf_token_name]
         ELSE NoHeader

\* C15: a successful call returns the response of its own last send, and
\* leaves the session's token header as it was when the call was sent
\* unless the server made it take a token, which is then the header; so a
\* repeated call whose answer carries no token, or the token the session
\* already holds, leaves the token header stable.
C15_RepeatStable ==
    \A c \in Calls :
        call[c].pc = "returned"
        => (/\ call[c].result = call[c].response
            /\ call[c].result.attempt = Len(call[c].sent)
            /\ ServerToken(c) = NoHeader
                  => SessionToken = call[c].presented[1]
            /\ ServerToken(c) # NoHeader => SessionToken = ServerToken(c)
            /\ ServerToken(c) \in {NoHeader, call[c].presented[1]}
                  => SessionToken = call[c].presented[1])

\* a repeated successful call: the session already held a token from an
\* earlier call, the answer carried the same token, the header is unchanged
C15_Witness ==
    \E c \in Calls :
        /\ call[c].pc = "returned"
        /\ call[c].method \in UnsafeMethods
        /\ call[c].result.status_code = 200
        /\ call[c].presented[1] \in TokenValues
        /\ ServerToken(c) = call[c].presented[1]
        /\ SessionToken = call[c].presented[1]

\* C16: no step of a call with skip_roblox set changes the session's
\* headers, also for an unsafe method with token handling enabled and a 403
\* carrying the token header, and such a call sends exactly once.
C16_SkipNoTokenHandling ==
    [][\A c \in Calls :
         (/\ call'[c] # call[c]
          /\ (call[c].skip_roblox \/ call'[c].skip_roblox))
         => (/\ headers' = headers
             /\ Len(call'[c].sent) <= 1
             /\ call'[c].captured = NoHeader
             /\ (call'[c].pc \in {"returned", "raised"}
                    => Len(call'[c].sent) = 1))]_vars

\* a skip_roblox call with an unsafe method and token handling enabled that
\* returned a 403 carrying a token the session does not hold, after one send
C16_Witness ==
    \E c \in Calls :
        /\ call[c].pc = "returned"
        /\ call[c].skip_roblox
        /\ call[c].method \in UnsafeMethods
        /\ call[c].handle_xcsrf_token
        /\ call[c].result.status_code = 403
        /\ CarriesToken(call[c].result)
        /\ SessionToken # call[c].result.headers[xcsrf_token_name]
        /\ Len(call[c].sent) = 1

\* C17 as stated: no step of a streamed call changes the session's headers
\* and a streamed call never sends a second time.
C17_Original ==
    [][\A c \in Calls :
         (/\ call'[c] # call[c]
          /\ (call[c].stream \/ call'[c].stream))
         => (/\ headers' = headers
             /\ Len(call'[c].sent) <= 1)]_vars

\* C17 amended: when stream is true the response is returned right after
\* the token-handling step, which runs as for any other call: the first
\* response of a streamed token-handled unsafe-method call that carries the
\* token header sets the session's token header and, on a 403, is followed
\* by the resend; otherwise the first response is returned at once with the
\* headers unchanged; the response of the resend is returned.
C17_StreamAfterToken ==
    [][\A c \in Calls :
         /\ (call[c].stream /\ FirstResponseStep(c))
            => IF CaptureStep(c)
               THEN /\ SessionToken' =
                          call'[c].response.headers[xcsrf_token_name]
                    /\ IF call'[c].response.status_code = 403
                       THEN call'[c].pc = "send2" /\ Len(call'[c].sent) = 2
                       ELSE /\ call'[c].pc = "returned"
                            /\ call'[c].result = call'[c].response
               ELSE /\ headers' = headers
                    /\ call'[c].pc = "returned"
                    /\ call'[c].result = call'[c].response
                    /\ Len(call'[c].sent) = 1
         /\ (call[c].stream /\ ResendResponseStep(c))
            => (/\ call'[c].pc = "returned"
                /\ call'[c].result = call'[c].response)]_vars

\* a streamed call that captured a token, resent and returned the resend's
\* response
C17_Witness ==
    \E c \in Calls :
        /\ call[c].pc = "returned"
        /\ call[c].stream
        /\ Len(call[c].sent) = 2
        /\ call[c].result.attempt = 2
        /\ call[c].captured \in TokenValues
        /\ SessionToken = call[c].captured
        /\ call[c].presented[1] # call[c].captured

\* C18: no call sends more than twice, and the second send is issued only
\* in the step that receives a first response with status 403 and the token
\* header, in a call with an unsafe method, handle_xcsrf_token enabled and
\* skip_roblox unset.
C18_ResendOnlyIf ==
    [][\A c \in Calls :
         /\ Len(call'[c].sent) <= 2
         /\ Len(call'[c].sent) > Len(call[c].sent)
            => \/ call[c].pc = "idle" /\ Len(call'[c].sent) = 1
               \/ /\ FirstResponseStep(c)
                  /\ Len(call[c].sent) = 1
                  /\ Len(call'[c].sent) = 2
                  /\ ~call[c].skip_roblox
                  /\ call[c].handle_xcsrf_token
                  /\ call[c].method \in UnsafeMethods
                  /\ CarriesToken(call'[c].response)
                  /\ call'[c].response.status_code = 403]_vars

\* an unsafe-method call with token handling that ended after one send on a
\* 403 without the token header
C18_Witness ==
    \E c \in Calls :
        /\ Done(c)
        /\ call[c].method \in UnsafeMethods
        /\ call[c].handle_xcsrf_token
        /\ ~call[c].skip_roblox
        /\ call[c].response.attempt = 1
        /\ call[c].response.status_code = 403
        /\ ~CarriesToken(call[c].response)
        /\ Len(call[c].sent) = 1

\* an unsafe-method call with token handling that ended after one send on a
\* 500 carrying the token header
C18_WitnessNon403 ==
    \E c \in Calls :
        /\ Done(c)
        /\ call[c].method \in UnsafeMethods
        /\ call[c].handle_xcsrf_token
        /\ ~call[c].skip_roblox
        /\ call[c].response.status_code = 500
        /\ CarriesToken(call[c].response)
        /\ Len(call[c].sent) = 1

\* C19: with one caller (no other call writes the token header), from the
\* moment a call has issued its resend the session's token header is the
\* token of that call's first response, and that is the token the resend
\* presents on the wire.
C19_CaptureBeforeResend ==
    \A c \in Calls :
        /\ call[c].pc \in {"send2", "wait2"}
           => (/\ call[c].response.attempt = 1
               /\ CarriesToken(call[c].response)
               /\ SessionToken = call[c].response.headers[xcsrf_token_name])
        /\ Len(call[c].presented) = 2
           => (/\ call[c].captured \in TokenValues
               /\ call[c].presented[2] = call[c].captured)
        /\ call[c].pc = "wait2"
           => call[c].presented[2] =
                  call[c].response.headers[xcsrf_token_name]

\* a resend on the wire presenting the fresh token, the first send having
\* presented another, stale one
C19_Witness ==
    \E c \in Calls :
        /\ call[c].pc = "wait2"
        /\ call[c].presented[1] \in TokenValues
        /\ call[c].presented[2] = call[c].response.headers[xcsrf_token_name]
        /\ call[c].presented[2] # call[c].presented[1]

\* C20: with one caller, after a call that resent, the session's token
\* header is the token of the call's first response, also when the resend's
\* response carries another token.
C20_ResendTokenIgnored ==
    \A c \in Calls :
        (Done(c) /\ Len(call[c].sent) = 2)
        => (/\ call[c].captured \in TokenValues
            /\ SessionToken = call[c].captured)

\* a call that resent and ended on a resend response carrying a token other
\* than the one of its first response
C20_Witness ==
    \E c \in Calls :
        /\ Done(c)
        /\ Len(call[c].sent) = 2
        /\ call[c].response.attempt = 2
        /\ CarriesToken(call[c].response)
        /\ call[c].response.headers[xcsrf_token_name] # call[c].captured
        /\ SessionToken = call[c].captured

====
